---- MODULE Spec2Model ----
(***************************************************************************)
(* The tree_lexer crate: the character Cursor (cursor.rs) and the          *)
(* recognition routines implemented on it (lib.rs).                        *)
(*                                                                         *)
(* A character is its Unicode scalar value; a str is a sequence of them.   *)
(* The length of a str (str::len) is its length in UTF-8 bytes.            *)
(***************************************************************************)
EXTENDS Integers, Sequences, FiniteSets, TLC

\* ---------------------------------------------------------------- characters

EOF == 0
Tab == 9
Newline == 10
CarriageReturn == 13
Space == 32
DoubleQuote == 34
SingleQuote == 39
Star == 42
Slash == 47
Zero == 48
One == 49
Nine == 57
UpperA == 65
UpperB == 66
UpperF == 70
UpperX == 88
UpperZ == 90
Backslash == 92
Underscore == 95
LowerA == 97
LowerB == 98
LowerF == 102
LowerN == 110
LowerP == 112
LowerR == 114
LowerT == 116
LowerX == 120
LowerZ == 122
\* letters outside ASCII, from test_eat_ident_wonky_names: U+041A (two bytes
\* in UTF-8) and U+732B (three bytes)
Ka == 1050
Cat == 29483

\* char::len_utf8: the number of bytes of a character in a str
len_utf8(c) ==
    IF c < 128 THEN 1 ELSE IF c < 2048 THEN 2 ELSE IF c < 65536 THEN 3 ELSE 4

\* str::len: the length of a str in bytes
RECURSIVE str_len(_)
str_len(s) ==
    IF s = <<>> THEN 0 ELSE len_utf8(Head(s)) + str_len(Tail(s))

\* Option<char>
Some(c) == <<"Some", c>>
None == <<"None">>

\* ---------------------------------------------------------------- Cursor

\* Cursor::new
new(input) ==
    [chars |-> input, initial_len |-> str_len(input), line |-> 0, column |-> 0]

\* Cursor::consumed
consumed(cur) == cur.initial_len - str_len(cur.chars)

\* Cursor::reset_consumed
reset_consumed(cur) == [cur EXCEPT !.initial_len = str_len(cur.chars)]

\* reset_column leaving the column
reset_column_kept(cur) == cur

\* Cursor::reset_column
reset_column(cur) == [cur EXCEPT !.column = 0]

\* Cursor::increment_column
increment_column(cur) == [cur EXCEPT !.column = cur.column + 1]

\* Cursor::increment_line
increment_line(cur) == [cur EXCEPT !.line = cur.line + 1]

\* Cursor::location
location(cur) == [line |-> cur.line, column |-> cur.column]

\* Cursor::is_eof
is_eof(cur) == cur.chars = <<>>

\* Cursor::peek_first
peek_first(cur) == IF cur.chars = <<>> THEN EOF ELSE cur.chars[1]

\* peek_second without the first chars.next()
peek_second_unskipped(cur) == IF cur.chars = <<>> THEN EOF ELSE cur.chars[1]

\* Cursor::peek_second
peek_second(cur) == IF Len(cur.chars) < 2 THEN EOF ELSE cur.chars[2]

\* Cursor::advance, its return value
advance_ret(cur) == IF cur.chars = <<>> THEN None ELSE Some(Head(cur.chars))

\* advance counting the column before it looks for a character
advance_counting_first(cur) ==
    IF cur.chars = <<>>
    THEN increment_column(cur)
    ELSE LET next == [cur EXCEPT !.chars = Tail(cur.chars)]
         IN  IF Head(cur.chars) = Newline
             THEN increment_line(reset_column(next))
             ELSE increment_column(next)

\* Cursor::advance, the cursor it leaves
advance(cur) ==
    IF cur.chars = <<>>
    THEN cur
    ELSE LET next == [cur EXCEPT !.chars = Tail(cur.chars)]
         IN  IF Head(cur.chars) = Newline
             THEN increment_line(reset_column(next))
             ELSE increment_column(next)

\* ---------------------------------------------------------------- state

VARIABLES
    src,         \* the source text the cursor was created over
    cursor,      \* the Cursor: chars (the unread text), initial_len, line, column
    pc,          \* "idle", the loop a routine is in, or "panicked"
    op,          \* the operation called last (the one running when pc is a loop)
    out,         \* what the last finished operation returned, or the panic
    ret,         \* the local `ret` of the running loop
    depth,       \* the local `depth` of eat_multiline_comment
    base,        \* the Base eat_number has chosen
    caller_ret,  \* the local `ret` of eat_ident while eat_while runs
    pred,        \* the predicate handed to eat_while
    entry,       \* history: the cursor when the last operation was called
    reset_at     \* history: characters consumed when reset_consumed last ran

vars ==
    <<src, cursor, pc, op, out, ret, depth, base, caller_ret, pred, entry, reset_at>>

\* the number of characters consumed since the cursor was created
Pos == Len(src) - Len(cursor.chars)

\* the sequences over S of length at most n
SeqsUpTo(S, n) == UNION {[1..k -> S] : k \in 0..n}

\* a panic unwinds out of the routine: nothing returns and the scan is over
Panic(msg) ==
    /\ pc' = "panicked"
    /\ out' = <<"panic", msg>>

\* a call of a cursor operation or routine from the code that owns the cursor
Call(name) ==
    /\ pc = "idle"
    /\ op' = name
    /\ entry' = cursor
    /\ UNCHANGED src

\* an operation that runs no loop leaves no locals behind
NoLocals ==
    /\ ret' = <<>>
    /\ depth' = 0
    /\ base' = "none"
    /\ caller_ret' = <<>>
    /\ pred' = "none"

\* ---------------------------------------------------------------- cursor operations

Advance ==
    /\ Call("advance")
    /\ cursor' = advance(cursor)
    /\ out' = advance_ret(cursor)
    /\ pc' = "idle"
    /\ NoLocals
    /\ UNCHANGED reset_at

PeekFirst ==
    /\ Call("peek_first")
    /\ out' = <<"char", peek_first(cursor)>>
    /\ pc' = "idle"
    /\ NoLocals
    /\ UNCHANGED <<cursor, reset_at>>

PeekSecond ==
    /\ Call("peek_second")
    /\ out' = <<"char", peek_second(cursor)>>
    /\ pc' = "idle"
    /\ NoLocals
    /\ UNCHANGED <<cursor, reset_at>>

IsEof ==
    /\ Call("is_eof")
    /\ out' = <<"bool", is_eof(cursor)>>
    /\ pc' = "idle"
    /\ NoLocals
    /\ UNCHANGED <<cursor, reset_at>>

Consumed ==
    /\ Call("consumed")
    /\ out' = <<"usize", consumed(cursor)>>
    /\ pc' = "idle"
    /\ NoLocals
    /\ UNCHANGED <<cursor, reset_at>>

ResetConsumed ==
    /\ Call("reset_consumed")
    /\ cursor' = reset_consumed(cursor)
    /\ out' = <<"unit">>
    /\ pc' = "idle"
    /\ reset_at' = Pos
    /\ NoLocals

GetLocation ==
    /\ Call("location")
    /\ out' = <<"Location", location(cursor)>>
    /\ pc' = "idle"
    /\ NoLocals
    /\ UNCHANGED <<cursor, reset_at>>

\* ---------------------------------------------------------------- numbers

\* the match arm eat_decimal_digits takes on the character c
eat_decimal_digits_arm(c) ==
    IF c = Underscore THEN "skip"
    ELSE IF c \in Zero..Nine THEN "push"
    ELSE "break"

\* the match arm eat_hexadecimal_digits takes on the character c
eat_hexadecimal_digits_arm(c) ==
    IF c = Underscore THEN "skip"
    ELSE IF c \in (Zero..Nine) \cup (LowerA..LowerF) \cup (UpperA..UpperF) THEN "push"
    ELSE "break"

\* the match arm eat_binary_digits takes on the character c
eat_binary_digits_arm(c) ==
    IF c = Underscore THEN "skip"
    ELSE IF c \in Zero..One THEN "push"
    ELSE "break"

\* one iteration of a digit loop; on break the digits go back to eat_number,
\* which returns them with the Base
DigitsIteration(arm) ==
    /\ UNCHANGED <<src, op, entry, reset_at, depth, caller_ret, pred>>
    /\ IF arm = "break"
       THEN /\ pc' = "idle"
            /\ out' = <<"Number", ret, base>>
            /\ ret' = <<>>
            /\ base' = "none"
            /\ UNCHANGED cursor
       ELSE /\ ret' = IF arm = "push" THEN Append(ret, peek_first(cursor)) ELSE ret
            /\ cursor' = advance(cursor)
            /\ UNCHANGED <<pc, out, base>>

EatDecimalDigits ==
    /\ pc = "eat_decimal_digits"
    /\ DigitsIteration(eat_decimal_digits_arm(peek_first(cursor)))

EatHexadecimalDigits ==
    /\ pc = "eat_hexadecimal_digits"
    /\ DigitsIteration(eat_hexadecimal_digits_arm(peek_first(cursor)))

EatBinaryDigits ==
    /\ pc = "eat_binary_digits"
    /\ DigitsIteration(eat_binary_digits_arm(peek_first(cursor)))

\* eat_number_branch reading plain decimal digits after any unknown prefix
eat_number_branch_lenient(first, second) ==
    IF first = Zero
    THEN IF second \in {LowerX, UpperX} THEN "Hexadecimal"
         ELSE IF second \in {LowerB, UpperB} THEN "Binary"
         ELSE "Decimal"
    ELSE "Decimal"

\* eat_number_branch without the separator among the second characters
eat_number_branch_no_separator(first, second) ==
    IF first = Zero
    THEN IF second \in {LowerX, UpperX} THEN "Hexadecimal"
         ELSE IF second \in {LowerB, UpperB} THEN "Binary"
         ELSE IF second \in Zero..Nine THEN "Decimal"
         ELSE "panic"
    ELSE "Decimal"

\* the branch eat_number takes on the first two characters
eat_number_branch(first, second) ==
    IF first = Zero
    THEN IF second \in {LowerX, UpperX} THEN "Hexadecimal"
         ELSE IF second \in {LowerB, UpperB} THEN "Binary"
         ELSE IF second \in (Zero..Nine) \cup {Underscore} THEN "Decimal"
         ELSE "panic"
    ELSE "Decimal"

\* eat_number up to the digit loop it enters
EatNumber ==
    /\ Call("eat_number")
    /\ UNCHANGED reset_at
    /\ ret' = <<>>
    /\ depth' = 0
    /\ caller_ret' = <<>>
    /\ pred' = "none"
    /\ LET branch == eat_number_branch(peek_first(cursor), peek_second(cursor))
       IN  IF branch = "panic"
           THEN /\ Panic("Unexpected character after 0")
                /\ base' = "none"
                /\ UNCHANGED cursor
           ELSE /\ base' = branch
                /\ out' = <<"running">>
                /\ IF peek_first(cursor) = Zero /\ branch # "Decimal"
                   THEN cursor' = advance(advance(cursor))
                   ELSE cursor' = cursor
                /\ pc' = CASE branch = "Hexadecimal" -> "eat_hexadecimal_digits"
                           [] branch = "Binary" -> "eat_binary_digits"
                           [] OTHER -> "eat_decimal_digits"

\* ---------------------------------------------------------------- eat_while and its callers

\* unicode_xid's UnicodeXID::is_xid_start on the characters of the model
XID_Start(c) ==
    c \in (UpperA..UpperZ) \cup (LowerA..LowerZ) \cup {Ka, Cat}

\* unicode_xid's UnicodeXID::is_xid_continue on the characters of the model
XID_Continue(c) ==
    XID_Start(c) \/ c \in (Zero..Nine) \cup {Underscore}

is_xid_start(c) == c = Underscore \/ XID_Start(c)

\* is_xid_continue testing for identifier-start
is_xid_continue_as_start(c) == c = Underscore \/ XID_Start(c)

is_xid_continue(c) == XID_Continue(c)

\* the closures with the test for the newline turned round
predicate_inverted(p, c) ==
    CASE p = "ne_newline" -> c = Newline
      [] p = "is_xid_continue" -> is_xid_continue(c)
      [] p = "eq_a" -> c = LowerA
      [] OTHER -> FALSE

\* the closures handed to eat_while
predicate(p, c) ==
    CASE p = "ne_newline" -> c # Newline
      [] p = "is_xid_continue" -> is_xid_continue(c)
      [] p = "eq_a" -> c = LowerA
      [] OTHER -> FALSE

\* eat_while_cond taking the sentinel for the end of input
eat_while_cond_sentinel(p, cur) ==
    predicate(p, peek_first(cur)) /\ peek_first(cur) # EOF

\* the condition of eat_while's loop
eat_while_cond(p, cur) == predicate(p, peek_first(cur)) /\ ~is_eof(cur)

\* one iteration of eat_while; when the loop ends the text goes back to the caller
EatWhileLoop ==
    /\ pc = "eat_while"
    /\ UNCHANGED <<src, op, entry, reset_at, depth, base>>
    /\ IF eat_while_cond(pred, cursor)
       THEN /\ ret' = Append(ret, advance_ret(cursor)[2])
            /\ cursor' = advance(cursor)
            /\ UNCHANGED <<pc, out, caller_ret, pred>>
       ELSE /\ pc' = "idle"
            /\ out' = CASE op = "eat_comment" -> <<"unit">>
                        [] op = "eat_ident" -> <<"String", caller_ret \o ret>>
                        [] OTHER -> <<"String", ret>>
            /\ ret' = <<>>
            /\ caller_ret' = <<>>
            /\ pred' = "none"
            /\ UNCHANGED cursor

\* the predicates a direct call of eat_while is made with
Predicates == {"ne_newline", "is_xid_continue", "eq_a"}

EatWhile ==
    /\ Call("eat_while")
    /\ \E p \in Predicates : pred' = p
    /\ pc' = "eat_while"
    /\ out' = <<"running">>
    /\ ret' = <<>>
    /\ depth' = 0
    /\ base' = "none"
    /\ caller_ret' = <<>>
    /\ UNCHANGED <<cursor, reset_at>>

EatComment ==
    /\ Call("eat_comment")
    /\ pred' = "ne_newline"
    /\ pc' = "eat_while"
    /\ out' = <<"running">>
    /\ ret' = <<>>
    /\ depth' = 0
    /\ base' = "none"
    /\ caller_ret' = <<>>
    /\ UNCHANGED <<cursor, reset_at>>

EatIdent ==
    /\ Call("eat_ident")
    /\ UNCHANGED reset_at
    /\ ret' = <<>>
    /\ depth' = 0
    /\ base' = "none"
    /\ IF ~is_xid_start(peek_first(cursor))
       THEN /\ Panic("bad identifier start")
            /\ caller_ret' = <<>>
            /\ pred' = "none"
            /\ UNCHANGED cursor
       ELSE /\ caller_ret' = <<advance_ret(cursor)[2]>>
            /\ cursor' = advance(cursor)
            /\ pred' = "is_xid_continue"
            /\ pc' = "eat_while"
            /\ out' = <<"running">>

\* ---------------------------------------------------------------- block comments

\* eat_multiline_comment_iter breaking at any closing delimiter, whatever the depth
eat_multiline_comment_iter_unnested(cur, d) ==
    LET c == Head(cur.chars)
        after == advance(cur)
    IN  IF c = Star /\ peek_first(after) = Slash
        THEN [cursor |-> advance(after), depth |-> d - 1, break |-> TRUE]
        ELSE IF c = Slash /\ peek_first(after) = Star
        THEN [cursor |-> advance(after), depth |-> d + 1, break |-> FALSE]
        ELSE [cursor |-> after, depth |-> d, break |-> FALSE]

\* eat_multiline_comment_iter leaving the second character of a delimiter unread
eat_multiline_comment_iter_overlapping(cur, d) ==
    LET c == Head(cur.chars)
        after == advance(cur)
    IN  IF c = Star /\ peek_first(after) = Slash
        THEN [cursor |-> after, depth |-> d - 1, break |-> (d - 1 = 0)]
        ELSE IF c = Slash /\ peek_first(after) = Star
        THEN [cursor |-> after, depth |-> d + 1, break |-> FALSE]
        ELSE [cursor |-> after, depth |-> d, break |-> FALSE]

\* one iteration of eat_multiline_comment's loop, entered with Some(c) from
\* advance: the cursor and depth it leaves, and whether it breaks
eat_multiline_comment_iter(cur, d) ==
    LET c == Head(cur.chars)
        after == advance(cur)
    IN  IF c = Star /\ peek_first(after) = Slash
        THEN [cursor |-> advance(after), depth |-> d - 1, break |-> (d - 1 = 0)]
        ELSE IF c = Slash /\ peek_first(after) = Star
        THEN [cursor |-> advance(after), depth |-> d + 1, break |-> FALSE]
        ELSE [cursor |-> after, depth |-> d, break |-> FALSE]

\* eat_multiline_comment counting the opening delimiter before it reads it
EatMultilineComment_depth_one ==
    /\ Call("eat_multiline_comment")
    /\ depth' = 1
    /\ pc' = "eat_multiline_comment"
    /\ out' = <<"running">>
    /\ ret' = <<>>
    /\ base' = "none"
    /\ caller_ret' = <<>>
    /\ pred' = "none"
    /\ UNCHANGED <<cursor, reset_at>>

EatMultilineComment ==
    /\ Call("eat_multiline_comment")
    /\ depth' = 0
    /\ pc' = "eat_multiline_comment"
    /\ out' = <<"running">>
    /\ ret' = <<>>
    /\ base' = "none"
    /\ caller_ret' = <<>>
    /\ pred' = "none"
    /\ UNCHANGED <<cursor, reset_at>>

\* `while let Some(c) = self.advance()`: the loop ends when advance gives None
EatMultilineCommentLoop ==
    /\ pc = "eat_multiline_comment"
    /\ UNCHANGED <<src, op, entry, reset_at, ret, base, caller_ret, pred>>
    /\ IF advance_ret(cursor) = None
       THEN /\ pc' = "idle"
            /\ out' = <<"unit">>
            /\ cursor' = advance(cursor)
            /\ UNCHANGED depth
       ELSE LET it == eat_multiline_comment_iter(cursor, depth)
            IN  /\ cursor' = it.cursor
                /\ depth' = it.depth
                /\ pc' = IF it.break THEN "idle" ELSE pc
                /\ out' = IF it.break THEN <<"unit">> ELSE out

\* ---------------------------------------------------------------- strings

\* the character an escape stands for, or -1 when the escape is not recognised
escape(c) ==
    CASE c = Backslash -> Backslash
      [] c = LowerN -> Newline
      [] c = LowerR -> CarriageReturn
      [] c = LowerT -> Tab
      [] c = DoubleQuote -> DoubleQuote
      [] c = SingleQuote -> SingleQuote
      [] OTHER -> -1

\* the arm of eat_double_quoted_string's outer match taken on the character c
eat_double_quoted_string_arm(c) ==
    CASE c = Backslash -> "escape"
      [] c = DoubleQuote -> "close"
      [] c = EOF -> "unterminated"
      [] OTHER -> "copy"

EatDoubleQuotedString ==
    /\ Call("eat_double_quoted_string")
    /\ ret' = <<>>
    /\ cursor' = advance(cursor)
    /\ pc' = "eat_double_quoted_string"
    /\ out' = <<"running">>
    /\ depth' = 0
    /\ base' = "none"
    /\ caller_ret' = <<>>
    /\ pred' = "none"
    /\ UNCHANGED reset_at

\* one iteration of eat_double_quoted_string's loop
EatDoubleQuotedStringLoop ==
    /\ pc = "eat_double_quoted_string"
    /\ UNCHANGED <<src, op, entry, reset_at, depth, base, caller_ret, pred>>
    /\ LET arm == eat_double_quoted_string_arm(peek_first(cursor))
           escaped == advance(cursor)
       IN  CASE arm = "escape" ->
                  IF escape(peek_first(escaped)) = -1
                  THEN /\ Panic("unexpected escape sequence")
                       /\ cursor' = escaped
                       /\ UNCHANGED ret
                  ELSE /\ ret' = Append(ret, escape(peek_first(escaped)))
                       /\ cursor' = advance(escaped)
                       /\ UNCHANGED <<pc, out>>
             [] arm = "close" ->
                  /\ cursor' = advance(cursor)
                  /\ pc' = "idle"
                  /\ out' = <<"String", ret>>
                  /\ ret' = <<>>
             [] arm = "unterminated" ->
                  /\ Panic("unterminated string")
                  /\ UNCHANGED <<cursor, ret>>
             [] OTHER ->
                  /\ ret' = Append(ret, advance_ret(cursor)[2])
                  /\ cursor' = advance(cursor)
                  /\ UNCHANGED <<pc, out>>

\* ---------------------------------------------------------------- specifications

MaxLen == 3
MaxCommentLen == 9
MaxNumberLen == 4
MaxStringLen == 4
MaxIdentLen == 4

Alphabet == {Zero, LowerX, LowerB, Newline, Ka, Backslash}
CommentAlphabet == {Slash, Star, LowerA}
NumberAlphabet ==
    {Zero, One, Nine, Underscore, LowerX, UpperX, LowerB, UpperB, LowerF, LowerP,
     Space}
StringAlphabet ==
    {DoubleQuote, Backslash, LowerN, LowerR, LowerT, SingleQuote, LowerA, EOF}
IdentAlphabet == {LowerA, Underscore, Zero, Ka, Cat, Space, EOF}

\* a cursor created over the source text, nothing called yet
InitOver(inputs) ==
    /\ src \in inputs
    /\ cursor = new(src)
    /\ pc = "idle"
    /\ op = "new"
    /\ out = <<"unit">>
    /\ ret = <<>>
    /\ depth = 0
    /\ base = "none"
    /\ caller_ret = <<>>
    /\ pred = "none"
    /\ entry = new(src)
    /\ reset_at = 0

Init == InitOver(SeqsUpTo(Alphabet, MaxLen))

Next ==
    \/ Advance
    \/ PeekFirst
    \/ PeekSecond
    \/ IsEof
    \/ Consumed
    \/ ResetConsumed
    \/ GetLocation
    \/ EatNumber
    \/ EatDecimalDigits
    \/ EatHexadecimalDigits
    \/ EatBinaryDigits
    \/ EatWhile
    \/ EatComment
    \/ EatIdent
    \/ EatWhileLoop
    \/ EatMultilineComment
    \/ EatMultilineCommentLoop
    \/ EatDoubleQuotedString
    \/ EatDoubleQuotedStringLoop

Spec == Init /\ [][Next]_vars

\* block comments alone
InitComment == InitOver(SeqsUpTo(CommentAlphabet, MaxCommentLen))
NextComment == EatMultilineComment \/ EatMultilineCommentLoop
SpecComment == InitComment /\ [][NextComment]_vars

\* number literals alone
InitNumber == InitOver(SeqsUpTo(NumberAlphabet, MaxNumberLen))
NextNumber ==
    EatNumber \/ EatDecimalDigits \/ EatHexadecimalDigits \/ EatBinaryDigits
SpecNumber == InitNumber /\ [][NextNumber]_vars

\* string literals alone
InitString == InitOver(SeqsUpTo(StringAlphabet, MaxStringLen))
NextString == EatDoubleQuotedString \/ EatDoubleQuotedStringLoop
SpecString == InitString /\ [][NextString]_vars

\* identifiers alone
InitIdent == InitOver(SeqsUpTo(IdentAlphabet, MaxIdentLen))
NextIdent == EatIdent \/ EatWhileLoop
SpecIdent == InitIdent /\ [][NextIdent]_vars

\* eat_while and eat_comment alone; a loop that has begun goes on, as nothing
\* else runs while a call is in progress
MaxWhileLen == 4
WhileAlphabet == {LowerA, Zero, Space, Newline, EOF}
InitEatWhile == InitOver(SeqsUpTo(WhileAlphabet, MaxWhileLen))
NextEatWhile == EatWhile \/ EatComment \/ EatWhileLoop
SpecEatWhile ==
    InitEatWhile /\ [][NextEatWhile]_vars /\ WF_vars(EatWhileLoop)

\* block comments alone on shorter texts; the loop, once begun, goes on
MaxOpenCommentLen == 7
InitOpenComment == InitOver(SeqsUpTo(CommentAlphabet, MaxOpenCommentLen))
SpecOpenComment ==
    InitOpenComment /\ [][NextComment]_vars /\ WF_vars(EatMultilineCommentLoop)

\* block comments entered anywhere in a text, after advance has moved the cursor
MaxBodyLen == 6
InitCommentBody == InitOver(SeqsUpTo(CommentAlphabet, MaxBodyLen))
NextCommentBody == Advance \/ EatMultilineComment \/ EatMultilineCommentLoop
SpecCommentBody == InitCommentBody /\ [][NextCommentBody]_vars

\* ---------------------------------------------------------------- shared by the claims

\* the last operation called has ended: it returned or it panicked
Finished == pc \in {"idle", "panicked"}

\* the last operation called was `name` and it returned
Returned(name) == op = name /\ pc = "idle"

\* the characters consumed since the last operation was called
Eaten == Len(entry.chars) - Len(cursor.chars)

\* the text s from its i-th character on
From(s, i) == SubSeq(s, i, Len(s))

Min(S) == CHOOSE x \in S : \A y \in S : x <= y
Max(S) == CHOOSE x \in S : \A y \in S : x >= y

\* ---------------------------------------------------------------- C1

\* the delimiters of s from position i on, left to right and not overlapping:
\* for each whether it opens, and the position of the character after it
RECURSIVE Delimiters(_, _)
Delimiters(s, i) ==
    IF i >= Len(s) THEN <<>>
    ELSE IF s[i] = Slash /\ s[i + 1] = Star
    THEN <<[open |-> TRUE, after |-> i + 2]>> \o Delimiters(s, i + 2)
    ELSE IF s[i] = Star /\ s[i + 1] = Slash
    THEN <<[open |-> FALSE, after |-> i + 2]>> \o Delimiters(s, i + 2)
    ELSE Delimiters(s, i + 1)

\* the nesting depth after the first k delimiters
NestingAfter(ds, k) ==
    Cardinality({j \in 1..k : ds[j].open}) - Cardinality({j \in 1..k : ~ds[j].open})

\* the delimiters at which the depth is back at 0
ClosingDelimiters(ds) == {k \in 1..Len(ds) : NestingAfter(ds, k) = 0}

BeginsWithOpen(s) == Len(s) >= 2 /\ s[1] = Slash /\ s[2] = Star

\* s begins with an opening delimiter and the depth returns to 0
ClosedComment(s) ==
    BeginsWithOpen(s) /\ ClosingDelimiters(Delimiters(s, 1)) # {}

\* the position of the character after the first delimiter that brings the
\* depth back to 0
AfterMatchingClose(s) ==
    LET ds == Delimiters(s, 1) IN ds[Min(ClosingDelimiters(ds))].after

\* C1: on an input that begins with an opening delimiter and whose depth
\* returns to 0, eat_multiline_comment never reads past the first closing
\* delimiter that brings the depth back to 0, stops only there, and when it
\* has consumed that delimiter it has returned with the cursor right after it
C1_StopsAfterMatchingClose ==
    (op = "eat_multiline_comment" /\ ClosedComment(entry.chars)) =>
        LET after == AfterMatchingClose(entry.chars)
        IN  /\ pc # "panicked"
            /\ Eaten <= after - 1
            /\ pc = "idle" <=> Eaten = after - 1
            /\ pc = "idle" => cursor.chars = From(entry.chars, after)

\* a nested comment was closed, with text left after it
C1_Witness ==
    /\ Returned("eat_multiline_comment")
    /\ ClosedComment(entry.chars)
    /\ Min(ClosingDelimiters(Delimiters(entry.chars, 1))) >= 4
    /\ cursor.chars # <<>>

\* ---------------------------------------------------------------- C2

DecimalDigits == Zero..Nine
HexadecimalDigits == (Zero..Nine) \cup (LowerA..LowerF) \cup (UpperA..UpperF)
BinaryDigits == {Zero, One}

\* s is one or more digits of the set, with separators after the first digit
DigitsWithSeparators(s, digits) ==
    /\ Len(s) >= 1
    /\ s[1] \in digits
    /\ \A i \in 2..Len(s) : s[i] \in digits \cup {Underscore}

HexadecimalLiteral(s) ==
    /\ Len(s) >= 2
    /\ s[1] = Zero
    /\ s[2] \in {LowerX, UpperX}
    /\ DigitsWithSeparators(From(s, 3), HexadecimalDigits)

BinaryLiteral(s) ==
    /\ Len(s) >= 2
    /\ s[1] = Zero
    /\ s[2] \in {LowerB, UpperB}
    /\ DigitsWithSeparators(From(s, 3), BinaryDigits)

DecimalLiteral(s) == DigitsWithSeparators(s, DecimalDigits)

NumberLiteral(s) == HexadecimalLiteral(s) \/ BinaryLiteral(s) \/ DecimalLiteral(s)

BaseOfLiteral(s) ==
    IF HexadecimalLiteral(s) THEN "Hexadecimal"
    ELSE IF BinaryLiteral(s) THEN "Binary"
    ELSE "Decimal"

\* the digits of the literal in order, the prefix and every separator removed
DigitsOfLiteral(s) ==
    LET body == IF DecimalLiteral(s) THEN s ELSE From(s, 3)
        NotSeparator(c) == c # Underscore
    IN  SelectSeq(body, NotSeparator)

\* C2: on an input that is a number literal (an optional base prefix, then
\* digits of the base with separators after the first digit) eat_number
\* returns the digits without the separators and the Base of the prefix,
\* and leaves the cursor past the literal
C2_NumberLiteral ==
    (op = "eat_number" /\ Finished /\ NumberLiteral(entry.chars)) =>
        /\ pc = "idle"
        /\ out = <<"Number", DigitsOfLiteral(entry.chars), BaseOfLiteral(entry.chars)>>
        /\ cursor.chars = <<>>

\* probe: C2 on every literal but those that start with `0` and go on with
\* neither a prefix character, a digit nor a separator
C2_ButLoneZero ==
    (/\ op = "eat_number"
     /\ Finished
     /\ NumberLiteral(entry.chars)
     /\ eat_number_branch(peek_first(entry), peek_second(entry)) # "panic") =>
        /\ pc = "idle"
        /\ out = <<"Number", DigitsOfLiteral(entry.chars), BaseOfLiteral(entry.chars)>>
        /\ cursor.chars = <<>>


\* ---------------------------------------------------------------- C3

\* the first two characters make eat_number's invalid base: `0`, then a
\* character (or the end of input) that is no prefix, digit or separator
InvalidBase(s) ==
    /\ Len(s) >= 1
    /\ s[1] = Zero
    /\ Len(s) >= 2 =>
           s[2] \notin {LowerX, UpperX, LowerB, UpperB, Underscore} \cup DecimalDigits

\* the first character fails the identifier-start test, or there is none
InvalidIdentifierStart(s) ==
    Len(s) >= 1 => ~(s[1] = Underscore \/ XID_Start(s[1]))

Escapes ==
    (Backslash :> Backslash) @@ (LowerN :> Newline) @@ (LowerR :> CarriageReturn)
        @@ (LowerT :> Tab) @@ (DoubleQuote :> DoubleQuote) @@ (SingleQuote :> SingleQuote)

\* where the string that s holds from position i on ends: "closed" at an
\* unescaped quote, "open" at the end of input (or at a backslash that is the
\* last character), "escape" at a backslash that is followed by a character
\* that is no escape
RECURSIVE StringScan(_, _)
StringScan(s, i) ==
    IF i > Len(s) THEN [kind |-> "open", at |-> i]
    ELSE IF s[i] = DoubleQuote THEN [kind |-> "closed", at |-> i]
    ELSE IF s[i] = Backslash
    THEN IF i = Len(s) THEN [kind |-> "open", at |-> i]
         ELSE IF s[i + 1] \in DOMAIN Escapes THEN StringScan(s, i + 2)
         ELSE [kind |-> "escape", at |-> i]
    ELSE StringScan(s, i + 1)

\* the text of s from position i up to position j, each escape pair replaced
\* by the character it stands for
RECURSIVE Decoded(_, _, _)
Decoded(s, i, j) ==
    IF i >= j THEN <<>>
    ELSE IF s[i] = Backslash THEN <<Escapes[s[i + 1]]>> \o Decoded(s, i + 2, j)
    ELSE <<s[i]>> \o Decoded(s, i + 1, j)

BeginsWithQuote(s) == Len(s) >= 1 /\ s[1] = DoubleQuote

\* s is a quote, text with recognised escapes only, and a closing quote
ClosedString(s) == BeginsWithQuote(s) /\ StringScan(s, 2).kind = "closed"

\* s is a quote and text with recognised escapes only that runs to the end
OpenString(s) == BeginsWithQuote(s) /\ StringScan(s, 2).kind = "open"

\* C4: on a closed string eat_double_quoted_string returns the text between
\* the quotes with every escape decoded and every other character copied,
\* and leaves the cursor right after the closing quote
C4_StringDecoded ==
    (op = "eat_double_quoted_string" /\ Finished /\ ClosedString(entry.chars)) =>
        LET close == StringScan(entry.chars, 2).at
        IN  /\ pc = "idle"
            /\ out = <<"String", Decoded(entry.chars, 2, close)>>
            /\ cursor.chars = From(entry.chars, close + 1)

\* probe: C4 on the closed strings that hold no character equal to EOF
C4_ButSentinel ==
    (/\ op = "eat_double_quoted_string"
     /\ Finished
     /\ ClosedString(entry.chars)
     /\ \A i \in 2..StringScan(entry.chars, 2).at : entry.chars[i] # EOF) =>
        LET close == StringScan(entry.chars, 2).at
        IN  /\ pc = "idle"
            /\ out = <<"String", Decoded(entry.chars, 2, close)>>
            /\ cursor.chars = From(entry.chars, close + 1)

\* ---------------------------------------------------------------- C5

\* C5: on an open string eat_double_quoted_string fails as unterminated,
\* with the whole input consumed
C5_Unterminated ==
    (op = "eat_double_quoted_string" /\ Finished /\ OpenString(entry.chars)) =>
        /\ pc = "panicked"
        /\ out = <<"panic", "unterminated string">>
        /\ is_eof(cursor)

\* probe: C5 on the open strings that hold no character equal to EOF and do
\* not end with the backslash of an escape
C5_ButSentinel ==
    (/\ op = "eat_double_quoted_string"
     /\ Finished
     /\ OpenString(entry.chars)
     /\ StringScan(entry.chars, 2).at = Len(entry.chars) + 1
     /\ \A i \in 2..Len(entry.chars) : entry.chars[i] # EOF) =>
        /\ pc = "panicked"
        /\ out = <<"panic", "unterminated string">>
        /\ is_eof(cursor)


\* ---------------------------------------------------------------- C6

IdentifierStart(c) == c = Underscore \/ XID_Start(c)

\* the length of the longest prefix of s that is its first character followed
\* by identifier-continue characters
IdentifierLength(s) ==
    Max({k \in 1..Len(s) : \A j \in 2..k : XID_Continue(s[j])})

\* C6: eat_ident on an identifier-start character returns the longest prefix
\* that is that character followed by identifier-continue characters and
\* leaves the cursor right after it; on any other first character (or none)
\* it fails with the bad identifier start
C6_LongestIdentifier ==
    (op = "eat_ident" /\ Finished) =>
        IF entry.chars # <<>> /\ IdentifierStart(entry.chars[1])
        THEN LET n == IdentifierLength(entry.chars)
             IN  /\ pc = "idle"
                 /\ out = <<"String", SubSeq(entry.chars, 1, n)>>
                 /\ cursor.chars = From(entry.chars, n + 1)
        ELSE /\ pc = "panicked"
             /\ out = <<"panic", "bad identifier start">>
             /\ cursor = entry

\* an identifier with a character of more than one byte was returned, with
\* text left after it
C6_Witness ==
    /\ Returned("eat_ident")
    /\ Len(out[2]) >= 2
    /\ \E i \in 1..Len(out[2]) : len_utf8(out[2][i]) > 1
    /\ cursor.chars # <<>>

\* ---------------------------------------------------------------- C7

\* C7: consumed() is the number of characters advanced past since the last
\* reset_consumed, and reset_consumed makes it 0 and changes nothing else
C7_ConsumedCountsCharacters ==
    /\ consumed(cursor) = Pos - reset_at
    /\ op = "consumed" => out = <<"usize", Pos - reset_at>>
    /\ op = "reset_consumed" =>
           /\ consumed(cursor) = 0
           /\ cursor.chars = entry.chars
           /\ cursor.line = entry.line
           /\ cursor.column = entry.column

\* probe: what consumed() is, the number of bytes advanced past since the
\* last reset_consumed
C7_ConsumedCountsBytes ==
    /\ consumed(cursor) =
           str_len(SubSeq(src, reset_at + 1, Pos))
    /\ op = "reset_consumed" =>
           /\ consumed(cursor) = 0
           /\ cursor.chars = entry.chars
           /\ cursor.line = entry.line
           /\ cursor.column = entry.column

\* ---------------------------------------------------------------- C8

\* the text consumed so far
Read == SubSeq(src, 1, Pos)

\* the positions of the newlines consumed so far
NewlinesRead == {i \in 1..Pos : src[i] = Newline}

\* C8: line is the number of newlines consumed and column the number of
\* characters consumed since the last of them; an advance over a newline sets
\* column to 0 and adds 1 to line, an advance over another character adds 1
\* to column and leaves line
C8_LocationOfNextCharacter ==
    /\ cursor.chars = From(src, Pos + 1)
    /\ location(cursor).line = Cardinality(NewlinesRead)
    /\ location(cursor).column =
           IF NewlinesRead = {} THEN Pos ELSE Pos - Max(NewlinesRead)
    /\ (op = "advance" /\ out # None) =>
           IF out = Some(Newline)
           THEN cursor.column = 0 /\ cursor.line = entry.line + 1
           ELSE cursor.column = entry.column + 1 /\ cursor.line = entry.line

\* a newline was consumed, and then the character after it by advance
C8_Witness ==
    /\ op = "advance"
    /\ out # None
    /\ cursor.line = 1
    /\ cursor.column = 1
    /\ Pos = 3

\* ---------------------------------------------------------------- C9

\* the character n places ahead of the cursor, or the sentinel
Ahead(n) == IF Pos + n <= Len(src) THEN src[Pos + n] ELSE EOF

\* C9: a peek returns, never panics and leaves the cursor as it was;
\* peek_first gives the next unread character and peek_second the one after
\* it, each the sentinel when there is no such character
C9_PeeksReadOnly ==
    /\ op = "peek_first" =>
           pc = "idle" /\ cursor = entry /\ out = <<"char", Ahead(1)>>
    /\ op = "peek_second" =>
           pc = "idle" /\ cursor = entry /\ out = <<"char", Ahead(2)>>

\* peek_second at the last character: it gives the sentinel
C9_Witness ==
    /\ op = "peek_second"
    /\ Pos >= 1
    /\ Len(cursor.chars) = 1
    /\ out = <<"char", EOF>>
    /\ cursor.chars[1] # EOF

\* ---------------------------------------------------------------- C10

\* what is_eof and advance gave, against the text that was left
C10_EofAndAdvance ==
    /\ op = "is_eof" => out = <<"bool", Pos = Len(src)>>
    /\ op = "advance" =>
           IF entry.chars # <<>>
           THEN /\ out = Some(entry.chars[1])
                /\ cursor.chars = Tail(entry.chars)
           ELSE /\ out = None
                /\ cursor = entry

\* C10: is_eof is true exactly when no character remains; advance returns
\* the next character and removes it alone, or at the end returns None and
\* changes nothing; and the end, once reached, is never left, so that after
\* a None every later advance gives None
C10_AdvanceToTheEnd ==
    /\ []C10_EofAndAdvance
    /\ [][is_eof(cursor) => is_eof(cursor')]_vars

\* advance gave None after the whole of a text was read
C10_Witness ==
    /\ op = "advance"
    /\ out = None
    /\ Pos >= 2
    /\ is_eof(cursor)


\* ---------------------------------------------------------------- C11

\* the length of the longest prefix of s whose characters all satisfy p
PrefixLength(p, s) ==
    Max({k \in 0..Len(s) : \A j \in 1..k : predicate(p, s[j])})

\* the step in which eat_while returns gives the longest prefix of the text
\* left at the call that satisfies the predicate, and leaves the cursor after it
C11_ReturnStep ==
    (op = "eat_while" /\ pc = "eat_while" /\ pc' # "eat_while") =>
        LET n == PrefixLength(pred, entry.chars)
        IN  /\ pc' = "idle"
            /\ out' = <<"String", SubSeq(entry.chars, 1, n)>>
            /\ cursor'.chars = From(entry.chars, n + 1)

NewlineAt(s) ==
    Min({i \in 1..Len(s) : s[i] = Newline} \cup {Len(s) + 1})

\* where eat_comment leaves the cursor: on the next newline, or at the end of
\* input when there is none, with the line as it was
C12_AtNewline ==
    Returned("eat_comment") =>
        LET n == NewlineAt(entry.chars)
        IN  /\ cursor.chars = From(entry.chars, n)
            /\ location(cursor).line = location(entry).line
            /\ IF n <= Len(entry.chars)
               THEN advance_ret(cursor) = Some(Newline)
               ELSE is_eof(cursor)

\* C12: eat_comment terminates with every character up to the next newline
\* consumed and the newline the next character of advance, the line
\* unchanged; without a newline it consumes all the input
C12_UpToNewline ==
    /\ []C12_AtNewline
    /\ (op = "eat_comment" /\ pc = "eat_while") ~> Returned("eat_comment")

\* eat_comment stopped on a newline after it consumed two characters or more
C12_Witness ==
    /\ Returned("eat_comment")
    /\ Eaten >= 2
    /\ advance_ret(cursor) = Some(Newline)


\* ---------------------------------------------------------------- C13

\* s begins with an opening delimiter and the depth never returns to 0
OpenComment(s) == BeginsWithOpen(s) /\ ~ClosedComment(s)

\* on a comment that is never closed eat_multiline_comment does not panic, and
\* when it has returned the cursor is at the end of input
C13_AtEndOfInput ==
    (op = "eat_multiline_comment" /\ OpenComment(entry.chars)) =>
        /\ pc # "panicked"
        /\ pc = "idle" =>
               /\ out = <<"unit">>
               /\ is_eof(cursor)
               /\ advance_ret(cursor) = None

\* C13: on an input that begins with an opening delimiter and whose depth
\* never returns to 0, eat_multiline_comment terminates: it returns without
\* a panic, the whole input consumed and the cursor at the end of input
C13_UnclosedTerminates ==
    /\ []C13_AtEndOfInput
    /\ (op = "eat_multiline_comment" /\ pc = "eat_multiline_comment")
           ~> Returned("eat_multiline_comment")

\* a comment nested two deep or more ran to the end of input unclosed
C13_Witness ==
    /\ Returned("eat_multiline_comment")
    /\ OpenComment(entry.chars)
    /\ depth >= 2
    /\ is_eof(cursor)

\* ---------------------------------------------------------------- C14

\* the two characters before the place the last operation was called at are
\* an opening delimiter
EnteredAfterOpen ==
    LET p == Len(src) - Len(entry.chars)
    IN  p >= 2 /\ src[p - 1] = Slash /\ src[p] = Star

\* C14 as stated: entered just after an opening delimiter,
\* eat_multiline_comment scans from depth 1 and stops right after the
\* delimiter that closes that opening
C14_EnteredAfterOpen ==
    (/\ op = "eat_multiline_comment"
     /\ Finished
     /\ EnteredAfterOpen
     /\ ClosedComment(<<Slash, Star>> \o entry.chars)) =>
        /\ pc = "idle"
        /\ cursor.chars =
               From(entry.chars, AfterMatchingClose(<<Slash, Star>> \o entry.chars) - 2)

\* C14, amended: eat_multiline_comment starts at depth 0 and reads the
\* opening delimiter itself, which takes it to depth 1; entered on an opening
\* delimiter, it stops right after the delimiter that closes that opening
C14_EnteredOnOpen ==
    op = "eat_multiline_comment" =>
        /\ (pc = "eat_multiline_comment" /\ Eaten = 0) => depth = 0
        /\ (BeginsWithOpen(entry.chars) /\ Eaten = 2) => depth = 1
        /\ (ClosedComment(entry.chars) /\ Finished) =>
               /\ pc = "idle"
               /\ cursor.chars = From(entry.chars, AfterMatchingClose(entry.chars))

\* a comment entered on its opening delimiter, after advance had moved the
\* cursor there, was closed with text left after it
C14_Witness ==
    /\ Returned("eat_multiline_comment")
    /\ Len(entry.chars) < Len(src)
    /\ ClosedComment(entry.chars)
    /\ cursor.chars # <<>>


\* ---------------------------------------------------------------- C17

\* the delimiters among the characters consumed since the call
DelimitersEaten == Delimiters(SubSeq(entry.chars, 1, Eaten), 1)

\* C17: entered on an opening delimiter, the depth of eat_multiline_comment
\* is never negative, is the number of opening delimiters consumed less the
\* number of closing ones (delimiters that do not overlap), is 1 or more
\* after every iteration that does not return, and is 0 after an iteration
\* only when that iteration returns
C17_DepthCountsDelimiters ==
    (op = "eat_multiline_comment" /\ BeginsWithOpen(entry.chars)) =>
        /\ depth >= 0
        /\ depth = NestingAfter(DelimitersEaten, Len(DelimitersEaten))
        /\ (pc = "eat_multiline_comment" /\ Eaten > 0) => depth >= 1
        /\ (depth = 0 /\ Eaten > 0) => pc = "idle"

\* after `/*/` the comment is open at depth 1: the slash did not close it
C17_Witness ==
    /\ op = "eat_multiline_comment"
    /\ pc = "eat_multiline_comment"
    /\ Eaten = 3
    /\ SubSeq(entry.chars, 1, 3) = <<Slash, Star, Slash>>
    /\ depth = 1


\* ---------------------------------------------------------------- C15

\* C15 as stated: a routine that fails has consumed a character or more
C15_AdvancedPastBadSpan ==
    pc = "panicked" => Eaten >= 1

\* probe: what has been consumed at each failure: nothing by eat_number and
\* eat_ident, the cursor being as it was at the call; by
\* eat_double_quoted_string all up to the point of failure: the character it
\* was entered on (if there was one), and for an invalid escape the backslash,
\* the last character consumed; an unterminated string leaves the cursor at
\* the end of input or on a character equal to the sentinel
C15_ConsumedAtFailure ==
    pc = "panicked" =>
        /\ op \in {"eat_number", "eat_ident"} => cursor = entry
        /\ op = "eat_double_quoted_string" =>
               /\ Eaten >= 1 \/ entry.chars = <<>>
               /\ out = <<"panic", "unexpected escape sequence">> =>
                      Eaten >= 2 /\ src[Pos] = Backslash
               /\ out = <<"panic", "unterminated string">> =>
                      peek_first(cursor) = EOF

\* ---------------------------------------------------------------- C16

\* C16: eat_number fails exactly when the first character is `0` and the
\* second (the sentinel when there is none) is no prefix character, digit or
\* separator; it has then consumed nothing; on any other text that begins
\* with a digit it does not fail and what it returns is a literal
C16_InvalidBaseExactly ==
    op = "eat_number" =>
        /\ pc = "panicked" <=>
               /\ peek_first(entry) = Zero
               /\ peek_second(entry) \notin
                      {LowerX, UpperX, LowerB, UpperB, Underscore} \cup DecimalDigits
        /\ pc = "panicked" =>
               /\ out = <<"panic", "Unexpected character after 0">>
               /\ cursor = entry
        /\ (/\ Finished
            /\ entry.chars # <<>>
            /\ entry.chars[1] \in DecimalDigits
            /\ ~InvalidBase(entry.chars)) =>
               pc = "idle" /\ out[1] = "Number"

\* eat_number failed on `0` followed by a space, the cursor still on the `0`
C16_Witness ==
    /\ op = "eat_number"
    /\ pc = "panicked"
    /\ Len(entry.chars) >= 2
    /\ entry.chars[2] = Space
    /\ cursor = entry

\* ---------------------------------------------------------------- C18

\* C18: eat_double_quoted_string fails as unterminated only at the end of input
C18_UnterminatedAtEndOfInput ==
    (/\ op = "eat_double_quoted_string"
     /\ pc = "panicked"
     /\ out = <<"panic", "unterminated string">>) =>
        is_eof(cursor)

\* probe: where the unterminated string is reported, at the end of input or
\* on a character equal to the sentinel
C18_AtSentinel ==
    (/\ op = "eat_double_quoted_string"
     /\ pc = "panicked"
     /\ out = <<"panic", "unterminated string">>) =>
        is_eof(cursor) \/ cursor.chars[1] = EOF

\* ---------------------------------------------------------------- C19

\* the digits of a Base
DigitsOfBase(b) ==
    CASE b = "Hexadecimal" -> HexadecimalDigits
      [] b = "Binary" -> BinaryDigits
      [] OTHER -> DecimalDigits

\* C19: a number returned by eat_number, entered on a decimal digit, has a
\* text of one digit or more, each a digit of the Base returned
C19_DigitsOfBase ==
    (/\ Returned("eat_number")
     /\ entry.chars # <<>>
     /\ entry.chars[1] \in DecimalDigits) =>
        /\ out[2] # <<>>
        /\ \A i \in 1..Len(out[2]) : out[2][i] \in DigitsOfBase(out[3])

\* probe: C19 but for the empty text after a prefix
C19_ButEmptyAfterPrefix ==
    (/\ Returned("eat_number")
     /\ entry.chars # <<>>
     /\ entry.chars[1] \in DecimalDigits) =>
        /\ out[2] = <<>> => out[3] \in {"Hexadecimal", "Binary"}
        /\ \A i \in 1..Len(out[2]) : out[2][i] \in DigitsOfBase(out[3])

====
